---- MODULE Spec2Model ----
(***************************************************************************)
(* Ryanair-Puppeteer: the fare extraction scripts.                         *)
(*                                                                         *)
(*   src/index.ts   1..426   direct-URL script (date strip, time slots,    *)
(*                           flight cards, heuristic scan, fallbacks)      *)
(*   src/index.ts 427..662   form-driven script (search form, calendar)    *)
(*   src/index3.ts           direct-URL script without heuristic scan and  *)
(*                           time-slot replacement                         *)
(*                                                                         *)
(* A text is a sequence of one-character strings, so that the regular      *)
(* expressions of the scripts can be modelled by what they match.          *)
(*                                                                         *)
(*   Spec          a run of checkRyanairPrice of index.ts or index3.ts,    *)
(*                 one action per awaited step, and main on its outcome;   *)
(*                 what the page holds is read at each page.evaluate       *)
(*   SpecCheapest  main on the flights of cards with any of CheapPrices    *)
(*   SpecMoney     the price parses on every text over Alphabet            *)
(***************************************************************************)
EXTENDS Integers, Sequences, FiniteSets, TLC

\* ------------------------------------------------------------------ bounds
MaxText == 4
MaxOffers == 3
MaxDates == 2
MaxSlots == 2
MaxCards == 2
MaxContainers == 1

\* the selectors of one list handed to getTextMultiSelector
MaxSelectors == 3

\* the changes of the document during one run
MaxDomChanges == 1

\* the clicks on the next month button of the calendar that are counted
MaxMonths == 2

\* the months the calendar of the date picker can show
LastMonth == 3

\* ------------------------------------------------------------- characters
Digits == {"0", "1", "2", "3", "4", "5", "6", "7", "8", "9"}

\* \s of the regular expressions and the characters String.trim removes
Spaces == {" "}

DigitVal(c) ==
    CASE c = "0" -> 0 [] c = "1" -> 1 [] c = "2" -> 2 [] c = "3" -> 3
      [] c = "4" -> 4 [] c = "5" -> 5 [] c = "6" -> 6 [] c = "7" -> 7
      [] c = "8" -> 8 [] c = "9" -> 9

\* the character classes of the regular expressions of the scripts
InClass(cls, c) ==
    CASE cls = "[\\d,.]"    -> c \in Digits \cup {",", "."}
      [] cls = "[^\\d\\s,.]" -> ~ (c \in Digits \cup Spaces \cup {",", "."})
      [] cls = "[\\d\\s,.]"  -> c \in Digits \cup Spaces \cup {",", "."}
      [] cls = "[^0-9.]"    -> ~ (c \in Digits \cup {"."})
      [] cls = "[^\\d\\s]"   -> ~ (c \in Digits \cup Spaces)
      [] cls = ","          -> c = ","

IsNum(c) == InClass("[\\d,.]", c)

\* a JavaScript null / undefined: no element, no match
Null == <<"null">>

\* a JavaScript null / undefined where an object is expected
NoRecord == [isNull |-> TRUE]

NA == <<"N", "/", "A">>

Empty == << >>

\* --------------------------------------------------------- string helpers
\* String.prototype.trim
RECURSIVE TrimLeft(_)
TrimLeft(s) ==
    IF s = << >> THEN s
    ELSE IF Head(s) \in Spaces THEN TrimLeft(Tail(s)) ELSE s

RECURSIVE TrimRight(_)
TrimRight(s) ==
    IF s = << >> THEN s
    ELSE IF s[Len(s)] \in Spaces THEN TrimRight(SubSeq(s, 1, Len(s) - 1)) ELSE s

Trim(s) == TrimRight(TrimLeft(s))

\* el ? el.textContent?.trim() || 'N/A' : 'N/A'
TextOrNA(el) ==
    IF el = Null THEN NA
    ELSE IF Trim(el) = Empty THEN NA ELSE Trim(el)

\* the end of the maximal run of characters of cls that starts at i
RECURSIVE RunEnd(_, _, _)
RunEnd(s, i, cls) ==
    IF i < Len(s) /\ InClass(cls, s[i + 1]) THEN RunEnd(s, i + 1, cls) ELSE i

\* s.match(/cls+/) without the g flag: the leftmost match, taken greedily;
\* Null when no character of the class occurs
FirstRun(s, cls) ==
    LET hits == {i \in 1..Len(s) : InClass(cls, s[i])}
    IN  IF hits = {} THEN Null
        ELSE LET i == CHOOSE k \in hits : \A m \in hits : k <= m
             IN  SubSeq(s, i, RunEnd(s, i, cls))

\* s.replace(/cls/g, ''): every character of the class removed
RECURSIVE RemoveAll(_, _)
RemoveAll(s, cls) ==
    IF s = << >> THEN s
    ELSE IF InClass(cls, Head(s)) THEN RemoveAll(Tail(s), cls)
         ELSE <<Head(s)>> \o RemoveAll(Tail(s), cls)

\* s.replace(/cls+/g, ''): every run of the class removed, which removes the
\* same characters
RemoveRuns(s, cls) == RemoveAll(s, cls)

\* price.match(/[\d,.]+/) with a fault: the last run instead of the first
PriceMatchLast(s) ==
    LET hits == {i \in 1..Len(s) : IsNum(s[i]) /\ (i = 1 \/ ~ IsNum(s[i - 1]))}
    IN  IF hits = {} THEN Null
        ELSE LET i == CHOOSE k \in hits : \A m \in hits : k >= m
             IN  SubSeq(s, i, RunEnd(s, i, "[\\d,.]"))

\* price.match(/[\d,.]+/)
PriceMatch(s) == FirstRun(s, "[\\d,.]")

\* the currency pattern with a fault: /[^\d\s]+/, separators not excluded
CurrencyMatchNoSeps(s) == FirstRun(s, "[^\\d\\s]")

\* price.match(/[^\d\s,.]+/)
CurrencyMatch(s) == FirstRun(s, "[^\\d\\s,.]")

\* ------------------------------------------------------------ JS numbers
\* A number is NaN, Infinity or a non-negative decimal: its integer part and
\* the digits of its fraction.
NaN == [kind |-> "NaN", int |-> 0, frac |-> << >>]

Infinity == [kind |-> "Infinity", int |-> 0, frac |-> << >>]

RECURSIVE DigitsVal(_)
DigitsVal(ds) ==
    IF ds = << >> THEN 0
    ELSE DigitsVal(SubSeq(ds, 1, Len(ds) - 1)) * 10 + DigitVal(ds[Len(ds)])

RECURSIVE Pow10(_)
Pow10(n) == IF n = 0 THEN 1 ELSE 10 * Pow10(n - 1)

\* the leading digits of s
RECURSIVE DigitPrefix(_)
DigitPrefix(s) ==
    IF s = << >> \/ ~ (Head(s) \in Digits) THEN << >>
    ELSE <<Head(s)>> \o DigitPrefix(Tail(s))

\* parseFloat on a text of digits and periods: the longest prefix that is a
\* decimal literal (digits, then optionally a period and digits); NaN when
\* that prefix holds no digit
ParseFloat(s) ==
    LET ip   == DigitPrefix(s)
        rest == SubSeq(s, Len(ip) + 1, Len(s))
        fp   == IF rest # << >> /\ Head(rest) = "." THEN DigitPrefix(Tail(rest))
                ELSE << >>
    IN  IF ip = << >> /\ fp = << >> THEN NaN
        ELSE [kind |-> "num", int |-> DigitsVal(ip), frac |-> fp]

\* the value of a decimal in units of 10^-w
Scaled(x, w) == x.int * Pow10(w) + DigitsVal(x.frac) * Pow10(w - Len(x.frac))

FracWidth(a, b) == IF Len(a.frac) >= Len(b.frac) THEN Len(a.frac) ELSE Len(b.frac)

\* a < b on numbers: false when either is NaN
JsLess(a, b) ==
    IF a.kind = "NaN" \/ b.kind = "NaN" THEN FALSE
    ELSE IF a.kind = "Infinity" THEN FALSE
    ELSE IF b.kind = "Infinity" THEN TRUE
    ELSE Scaled(a, FracWidth(a, b)) < Scaled(b, FracWidth(a, b))

\* a === b on numbers: false when either is NaN
JsEq(a, b) ==
    IF a.kind = "NaN" \/ b.kind = "NaN" THEN FALSE
    ELSE IF a.kind = "Infinity" \/ b.kind = "Infinity" THEN a.kind = b.kind
    ELSE Scaled(a, FracWidth(a, b)) = Scaled(b, FracWidth(a, b))

\* x || Infinity: NaN and 0 are falsy
OrInfinity(x) ==
    IF x.kind = "NaN" THEN Infinity
    ELSE IF x.kind = "num" /\ Scaled(x, Len(x.frac)) = 0 THEN Infinity
    ELSE x

\* getPriceNumeric of main
GetPriceNumeric(price) ==
    LET matches == PriceMatch(price)
    IN  IF matches # Null THEN ParseFloat(RemoveAll(matches, ",")) ELSE Infinity

\* parseFloat(price.replace(/[^0-9.]/g, '')) || Infinity of the form-driven main
FormPriceNumeric(price) == OrInfinity(ParseFloat(RemoveAll(price, "[^0-9.]")))

\* ---------------------------------------------------------------- texts
P45Ft == <<"4", "5", " ", "F", "t">>

P89Ft == <<"8", "9", " ", "F", "t">>

T1000 == <<"1", "0", ":", "0", "0">>

T1200 == <<"1", "2", ":", "0", "0">>

CheckWebsite == <<"C", "h", "e", "c", "k", " ", "w", "e", "b", "s", "i", "t", "e">>

SeeWebsite == <<"S", "e", "e", " ", "w", "e", "b", "s", "i", "t", "e">>

Direct == <<"D", "i", "r", "e", "c", "t">>

DirectFlight == <<"D", "i", "r", "e", "c", "t", " ", "f", "l", "i", "g", "h", "t">>

Ft == <<"F", "t">>

\* the pound sign, one character
Pound == <<"pound">>

\* the query: process.argv[2] || 'BUD', process.argv[3] || 'MAN'
Origin == <<"B", "U", "D">>

Destination == <<"M", "A", "N">>

\* el ? el.textContent?.trim() || '' : ''
TextOrEmpty(el) == IF el = Null THEN Empty ELSE Trim(el)

\* el ? el.textContent?.trim() : dflt   (no || : an empty text stays empty)
TextElse(el, dflt) == IF el = Null THEN dflt ELSE Trim(el)

\* a || b on strings: the empty string is falsy
Or(a, b) == IF a = Empty \/ a = Null THEN b ELSE a

\* els[i]?.textContent?.trim() || 'N/A'
NthTextOrNA(els, i) == IF i <= Len(els) THEN TextOrNA(els[i]) ELSE NA

\* ----------------------------------------------- record extractors, index.ts
\* the date price split with a fault: the last numeric run, not the first
DateMoneyLast(priceEl) ==
    LET priceText     == TextOrNA(priceEl)
        priceMatch    == PriceMatchLast(priceText)
        currencyMatch == CurrencyMatch(priceText)
    IN  [price    |-> IF priceMatch # Null THEN priceMatch ELSE NA,
         currency |-> IF currencyMatch # Null THEN currencyMatch ELSE NA]

\* the date price split with a fault: the currency pattern without separators
DateMoneyNoSeps(priceEl) ==
    LET priceText     == TextOrNA(priceEl)
        priceMatch    == PriceMatch(priceText)
        currencyMatch == CurrencyMatchNoSeps(priceText)
    IN  [price    |-> IF priceMatch # Null THEN priceMatch ELSE NA,
         currency |-> IF currencyMatch # Null THEN currencyMatch ELSE NA]

\* the price and currency of a date item
DateMoney(priceEl) ==
    LET priceText     == TextOrNA(priceEl)
        priceMatch    == PriceMatch(priceText)
        currencyMatch == CurrencyMatch(priceText)
    IN  [price    |-> IF priceMatch # Null THEN priceMatch ELSE NA,
         currency |-> IF currencyMatch # Null THEN currencyMatch ELSE NA]

\* the DatePrice with a fault: selected is told by the price text
DatePriceSelectedByText(item) ==
    LET m == DateMoney(item.priceEl)
    IN  [date       |-> TextOrEmpty(item.dayEl) \o <<" ">>
                        \o TextOrEmpty(item.monthEl),
         weekday    |-> TextOrEmpty(item.weekdayEl),
         price      |-> m.price,
         currency   |-> m.currency,
         isSelected |-> item.priceEl # Null]

\* one .date-item to a DatePrice
DatePriceOf(item) ==
    LET day   == TextOrEmpty(item.dayEl)
        month == TextOrEmpty(item.monthEl)
        m     == DateMoney(item.priceEl)
    IN  [date       |-> day \o <<" ">> \o month,
         weekday    |-> TextOrEmpty(item.weekdayEl),
         price      |-> m.price,
         currency   |-> m.currency,
         isSelected |-> item.selected]

\* one time slot to a time option
TimeOptionOf(slot) ==
    [departureTime |-> NthTextOrNA(slot.hours, 1),
     arrivalTime   |-> NthTextOrNA(slot.hours, 2),
     price         |-> TextElse(slot.priceEl, NA),
     flightNumber  |-> TextElse(slot.flightEl, NA),
     fromCity      |-> NthTextOrNA(slot.cities, 1),
     toCity        |-> NthTextOrNA(slot.cities, 2)]

\* the flight price split with a fault: the 'N/A' default of the date items
FlightMoneyNA(priceEl) ==
    LET price         == TextOrNA(priceEl)
        currencyMatch == CurrencyMatch(price)
    IN  [price    |-> price,
         currency |-> IF currencyMatch # Null THEN currencyMatch ELSE NA]

\* the price and currency of a flight card
FlightMoney(priceEl) ==
    LET price         == TextOrNA(priceEl)
        currencyMatch == CurrencyMatch(price)
    IN  [price    |-> price,
         currency |-> IF currencyMatch # Null THEN currencyMatch ELSE Empty]

\* one flight card to a FlightData
FlightOf(card, destination, origin) ==
    LET m == FlightMoney(card.priceEl)
    IN  [flightNumber  |-> TextOrNA(card.numberEl),
         departureTime |-> TextOrNA(card.depEl),
         arrivalTime   |-> TextOrNA(card.arrEl),
         price         |-> m.price,
         currency      |-> m.currency,
         duration      |-> TextOrNA(card.durationEl),
         fromAirport   |-> origin,
         toAirport     |-> destination]

\* getText with a fault: the text is not trimmed
GetTextUntrimmed(el) == el

\* getText of the heuristic scan: null when no element, else the trimmed text
GetText(el) == IF el = Null THEN Null ELSE Trim(el)

\* getTextMultiSelector; els[i] is the first element selectors[i] matches
RECURSIVE GetTextMultiSelector(_)
GetTextMultiSelector(els) ==
    IF els = << >> THEN NA
    ELSE LET text == GetText(Head(els))
         IN  IF text # Null /\ text # Empty THEN text
             ELSE GetTextMultiSelector(Tail(els))

\* some selector of the joined list matches
HasAny(els) == \E i \in 1..Len(els) : els[i] # Null

\* str.substring(0, n)
Substring0(s, n) == SubSeq(s, 1, IF Len(s) < n THEN Len(s) ELSE n)

\* the container test with a fault: one of the two elements is enough
MoreFlightOfEither(container) ==
    LET hasTime  == container.times # << >>
        hasPrice == HasAny(container.priceEls)
    IN  IF hasTime \/ hasPrice
        THEN LET price         == GetTextMultiSelector(container.priceEls)
                 currencyMatch == CurrencyMatch(price)
             IN  [flightNumber  |-> GetTextMultiSelector(container.numberEls),
                  departureTime |-> NthTextOrNA(container.times, 1),
                  arrivalTime   |-> IF Len(container.times) > 1
                                    THEN Trim(container.times[2]) ELSE NA,
                  price         |-> price,
                  currency      |-> IF currencyMatch # Null THEN currencyMatch
                                    ELSE Empty,
                  duration      |-> GetTextMultiSelector(container.durationEls),
                  fromAirport   |-> NthTextOrNA(container.airports, 1),
                  toAirport     |-> IF Len(container.airports) > 1
                                    THEN Trim(container.airports[2]) ELSE NA,
                  containerText |-> Substring0(Trim(container.text), 100)]
        ELSE NoRecord

\* one flight-like container to an offer, or null
MoreFlightOf(container) ==
    LET hasTime  == container.times # << >>
        hasPrice == HasAny(container.priceEls)
    IN  IF hasTime /\ hasPrice
        THEN LET price         == GetTextMultiSelector(container.priceEls)
                 currencyMatch == CurrencyMatch(price)
             IN  [flightNumber  |-> GetTextMultiSelector(container.numberEls),
                  departureTime |-> NthTextOrNA(container.times, 1),
                  arrivalTime   |-> IF Len(container.times) > 1
                                    THEN Trim(container.times[2]) ELSE NA,
                  price         |-> price,
                  currency      |-> IF currencyMatch # Null THEN currencyMatch
                                    ELSE Empty,
                  duration      |-> GetTextMultiSelector(container.durationEls),
                  fromAirport   |-> NthTextOrNA(container.airports, 1),
                  toAirport     |-> IF Len(container.airports) > 1
                                    THEN Trim(container.airports[2]) ELSE NA,
                  containerText |-> Substring0(Trim(container.text), 100)]
        ELSE NoRecord

\* seq.filter(item => item !== null)
RECURSIVE NonNull(_)
NonNull(seq) ==
    IF seq = << >> THEN << >>
    ELSE IF Head(seq) = NoRecord THEN NonNull(Tail(seq))
         ELSE <<Head(seq)>> \o NonNull(Tail(seq))

\* with a fault: the last selected one is found
FindSelectedLast(dps) ==
    LET hits == {i \in 1..Len(dps) : dps[i].isSelected}
    IN  IF hits = {} THEN NoRecord
        ELSE dps[CHOOSE k \in hits : \A m \in hits : k >= m]

\* datePrices.find(item => item.isSelected): the first one, undefined when none
FindSelected(dps) ==
    LET hits == {i \in 1..Len(dps) : dps[i].isSelected}
    IN  IF hits = {} THEN NoRecord
        ELSE dps[CHOOSE k \in hits : \A m \in hits : k <= m]

\* the page-level summary of the selected-date fallback
AdditionalInfoOf(page) ==
    [route       |-> TextElse(page.routeEl, Empty),
     directInfo  |-> TextElse(page.directEl, Empty),
     dateInfo    |-> TextElse(page.dateEl, Empty),
     fromAirport |-> TextElse(page.fromEl, Empty),
     toAirport   |-> TextElse(page.toEl, Empty)]

\* the generic flight entry made of the selected date price
GenericFlight(selectedDatePrice, additionalInfo, origin, destination) ==
    [flightNumber  |-> Or(additionalInfo.directInfo, Direct),
     departureTime |-> CheckWebsite,
     arrivalTime   |-> CheckWebsite,
     price         |-> selectedDatePrice.price,
     currency      |-> RemoveRuns(selectedDatePrice.price, "[\\d\\s,.]"),
     duration      |-> CheckWebsite,
     fromAirport   |-> Or(additionalInfo.fromAirport, origin),
     toAirport     |-> Or(additionalInfo.toAirport, destination)]

\* one time option to a FlightData
TimeOptionFlight(option, origin, destination) ==
    [flightNumber  |-> Or(option.flightNumber, DirectFlight),
     departureTime |-> option.departureTime,
     arrivalTime   |-> option.arrivalTime,
     price         |-> option.price,
     currency      |-> Or(RemoveRuns(option.price, "[\\d\\s,.]"), Ft),
     duration      |-> SeeWebsite,
     fromAirport   |-> origin,
     toAirport     |-> destination]

\* the replacement with a fault: flights = [] forgotten
AppendTimeOptions(fl, options, origin, destination) ==
    LET FlightOfOption(option) == TimeOptionFlight(option, origin, destination)
    IN  fl \o [i \in 1..Len(options) |-> FlightOfOption(options[i])]

\* flights = []; timeOptions.forEach(option => flights.push({...}))
ReplaceWithTimeOptions(fl, options, origin, destination) ==
    LET FlightOfOption(option) == TimeOptionFlight(option, origin, destination)
    IN  [i \in 1..Len(options) |-> FlightOfOption(options[i])]

\* ---------------------------------------------- record extractors, index3.ts
DatePrice3Of(item) ==
    [date       |-> TextOrEmpty(item.dayMonthEl),
     day        |-> TextOrEmpty(item.dayEl3),
     price      |-> TextOrNA(item.priceEl),
     isSelected |-> item.selected]

\* the price and currency of a flight card
FlightMoney3(priceEl) ==
    LET priceText     == TextOrNA(priceEl)
        currencyMatch == CurrencyMatch(priceText)
    IN  [price    |-> priceText,
         currency |-> IF currencyMatch # Null THEN currencyMatch ELSE Empty]

Flight3Of(card) ==
    LET m == FlightMoney3(card.priceEl)
    IN  [flightNumber  |-> TextOrNA(card.numberEl),
         departureTime |-> TextOrNA(card.depEl),
         arrivalTime   |-> TextOrNA(card.arrEl),
         price         |-> m.price,
         currency      |-> m.currency,
         duration      |-> TextOrNA(card.durationEl)]

GenericFlight3(selectedDatePrice) ==
    [flightNumber  |-> NA,
     departureTime |-> NA,
     arrivalTime   |-> NA,
     price         |-> selectedDatePrice.price,
     currency      |-> RemoveRuns(selectedDatePrice.price, "[\\d\\s,.]"),
     duration      |-> NA]

\* ------------------------------- record extractor, form-driven script
FormFlightOf(card) ==
    [flightNumber  |-> TextOrNA(card.numberEl),
     departureTime |-> NthTextOrNA(card.times, 1),
     arrivalTime   |-> NthTextOrNA(card.times, 2),
     price         |-> TextOrNA(card.priceEl),
     currency      |-> Or(TextOrEmpty(card.currencyEl), Pound)]

\* ------------------------------------ the page.evaluate bodies (Array map)
\* the map with a fault: the date prices come out in reverse order
DatePricesReversed(items) ==
    [i \in 1..Len(items) |-> DatePriceOf(items[Len(items) + 1 - i])]

DatePricesOf(items) == [i \in 1..Len(items) |-> DatePriceOf(items[i])]

TimeOptionsOf(slots) == [i \in 1..Len(slots) |-> TimeOptionOf(slots[i])]

FlightsOf(cards, destination, origin) ==
    [i \in 1..Len(cards) |-> FlightOf(cards[i], destination, origin)]

MoreFlightsOf(containers) ==
    NonNull([i \in 1..Len(containers) |-> MoreFlightOf(containers[i])])

DatePrices3Of(items) == [i \in 1..Len(items) |-> DatePrice3Of(items[i])]

Flights3Of(cards) == [i \in 1..Len(cards) |-> Flight3Of(cards[i])]

FormFlightsOf(cards) == [i \in 1..Len(cards) |-> FormFlightOf(cards[i])]

\* ------------------------------------------------------- cheapest flight
\* the reduce callback with a fault: priceA > priceB
CheapestCallbackGreater(fl, min, flight) ==
    LET priceA == GetPriceNumeric(fl[min].price)
        priceB == GetPriceNumeric(fl[flight].price)
    IN  IF JsLess(priceB, priceA) THEN min ELSE flight

\* the reduce callback with a fault: priceA <= priceB
CheapestCallbackLessEq(fl, min, flight) ==
    LET priceA == GetPriceNumeric(fl[min].price)
        priceB == GetPriceNumeric(fl[flight].price)
    IN  IF JsLess(priceA, priceB) \/ JsEq(priceA, priceB) THEN min ELSE flight

\* the reduce callback of main, index.ts; min and flight are positions in fl,
\* which stand for the two objects
CheapestCallback(fl, min, flight) ==
    LET priceA == GetPriceNumeric(fl[min].price)
        priceB == GetPriceNumeric(fl[flight].price)
    IN  IF JsLess(priceA, priceB) THEN min ELSE flight

\* the reduce callback of main, index3.ts
CheapestCallback3(fl, min, flight) ==
    LET priceA == GetPriceNumeric(fl[min].price)
        priceB == GetPriceNumeric(fl[flight].price)
    IN  IF JsLess(priceA, priceB) THEN min ELSE flight

\* the reduce callback of main, form-driven script
CheapestCallbackForm(fl, min, flight) ==
    LET priceA == FormPriceNumeric(fl[min].price)
        priceB == FormPriceNumeric(fl[flight].price)
    IN  IF JsLess(priceA, priceB) THEN min ELSE flight

Callback(v, fl, min, flight) ==
    CASE v = "index"  -> CheapestCallback(fl, min, flight)
      [] v = "index3" -> CheapestCallback3(fl, min, flight)
      [] v = "form"   -> CheapestCallbackForm(fl, min, flight)

\* Array.prototype.reduce without an initial value, on a non-empty array: the
\* accumulator starts as the first element
RECURSIVE ReduceFrom(_, _, _, _)
ReduceFrom(v, fl, acc, i) ==
    IF i > Len(fl) THEN acc
    ELSE ReduceFrom(v, fl, Callback(v, fl, acc, i), i + 1)

Reduce(v, fl) == ReduceFrom(v, fl, 1, 2)

\* the guard of main with a fault: the reduce runs whatever the length
HasFlightsAlways(fl) == TRUE

\* if (flightData.flights.length > 0)
HasFlights(fl) == Len(fl) > 0

\* ---------------------------------------------------- the browser, errors
\* no browser: puppeteer.launch has not resolved
NotLaunched == [launched |-> FALSE, open |-> FALSE, closes |-> 0]

\* const browser = await puppeteer.launch({...})
Launched == [launched |-> TRUE, open |-> TRUE, closes |-> 0]

\* the finally block with a fault: the browser is left open
BrowserCloseNothing(b) == b

\* await browser.close()
BrowserClose(b) == [b EXCEPT !.open = FALSE, !.closes = @ + 1]

\* the catch block with a fault: a new error is thrown in place of the caught
RethrowWrapped(error) == "Error"

\* catch (error) { console.error(...); throw error; }
Rethrow(error) == error

\* where the run goes on after the cookie dialog, by the script
AfterCookie(v) == IF v = "form" THEN "fillForm" ELSE "waitPrices"

\* the heuristic scan has not run
NoScan == [ran |-> FALSE, containers |-> << >>]

\* ------------------------------------------------------------------ state
VARIABLES
    variant,      \* the script that runs: "index", "index3" or "form"
    pc,           \* the position of the run
    dateItems,    \* the .date-item elements the date price evaluate saw
    datePrices,   \* const datePrices
    timeOptions,  \* const timeOptions
    flights,      \* let flights
    cardFlights,  \* the value the flight card evaluate returned
    moreFlights,  \* const moreFlights of the heuristic scan
    result,       \* the value checkRyanairPrice returned
    thrown,       \* the error checkRyanairPrice threw, "none" when none
    cheapestIdx,  \* the position of cheapestFlight in the flights, 0 when none
    reduced,      \* main has called reduce
    mainError,    \* the error main caught, "none" when none
    browser,      \* const browser: launched, open, the calls of close()
    raised,       \* the error raised inside the try block, "none" when none
    heuristic,    \* the heuristic scan: whether it ran, the containers it saw
    monthClicks,  \* the clicks on the next month button, up to MaxMonths
    calendar,     \* the date picker: the month shown, the month of the date
    dom,          \* the document of the page
    domSeen,      \* the documents the page has shown during the run
    matches,      \* per selector, the first element it matches (Null: none)
    tried,        \* the selectors getTextMultiSelector has evaluated
    text,         \* the value getTextMultiSelector returned (Null: not yet)
    cpc,          \* the position of getTextMultiSelector
    priceEl,      \* a price element's text (Null: no element)
    mpc,          \* the parse applied to priceEl
    money         \* its result

vars == <<variant, pc, dateItems, datePrices, timeOptions, flights, cardFlights,
          moreFlights, result, thrown, cheapestIdx, reduced, mainError,
          browser, raised, heuristic, monthClicks, calendar, dom, domSeen,
          matches, tried, text, cpc, priceEl, mpc, money>>

runVars == <<variant, pc, dateItems, datePrices, timeOptions, flights,
             cardFlights, moreFlights, result, thrown, cheapestIdx, reduced,
             mainError, browser, raised, heuristic, monthClicks, calendar,
             dom, domSeen>>

domVars == <<dom, domSeen>>

cascadeVars == <<matches, tried, text, cpc>>

moneyVars == <<priceEl, mpc, money>>

\* ------------------------------------------------------------- DOM inputs
SeqsUpTo(S, n) == UNION {[1..k -> S] : k \in 0..n}

D22 == <<"2", "2">>

Aug == <<"A", "u", "g">>

Fri == <<"F", "r", "i">>

FR1 == <<"F", "R", "1">>

STN == <<"S", "T", "N">>

DateItems ==
    {[selected |-> s, dayEl |-> D22, monthEl |-> Aug, weekdayEl |-> Fri,
      priceEl |-> p, dayMonthEl |-> D22 \o <<" ">> \o Aug, dayEl3 |-> Fri] :
        s \in BOOLEAN, p \in {P45Ft, Null}}

TimeSlots ==
    {[hours |-> <<T1000, T1200>>, cities |-> << >>, priceEl |-> p,
      flightEl |-> Null] : p \in {P89Ft, Null}}

MkCard(dep, price) ==
    [depEl |-> dep, arrEl |-> T1200, numberEl |-> FR1, priceEl |-> price,
     durationEl |-> Null, times |-> <<dep, T1200>>, currencyEl |-> Null]

Cards == {MkCard(dep, price) : dep \in {T1000, CheckWebsite}, price \in {P45Ft, P89Ft}}

NoEls == <<Null, Null, Null>>

MkContainer(times, priceEls) ==
    [times |-> times, priceEls |-> priceEls, numberEls |-> NoEls,
     airports |-> << >>, durationEls |-> NoEls, text |-> Empty]

\* a container with an element an airport selector matches
AirportContainer ==
    [MkContainer(<<T1000, T1200>>, <<P45Ft, Null, Null>>)
        EXCEPT !.airports = <<STN>>]

Containers ==
    {AirportContainer,
     MkContainer(<<CheckWebsite>>, <<Empty, P89Ft, Null>>),
     MkContainer(<<T1000>>, NoEls),
     MkContainer(<< >>, <<Null, Null, P45Ft>>),
     MkContainer(<< >>, NoEls)}

Pages ==
    {[routeEl |-> Null, directEl |-> Null, dateEl |-> Null, fromEl |-> f,
      toEl |-> Null] : f \in {Null, STN}}

\* ------------------------------------------------------------ the document
\* the candidates of the flight card selector list, index.ts
CardSelectors == <<"[data-e2e=flight-card]", ".flight-card", ".card-flight">>

\* the candidates of the flight card selector list, index3.ts
CardSelectors3 == <<"[data-e2e=flight-card]", ".flight-card">>

\* the candidates of the script
CardSelectorsOf(v) == IF v = "index3" THEN CardSelectors3 ELSE CardSelectors

\* an element of the document that the candidates sels match, a card by its
\* content
CardEl(sels, card) == [sels |-> sels, card |-> card]

\* the element matches one of the selectors
MatchesAny(el, selectors) ==
    \E i \in 1..Len(selectors) : selectors[i] \in el.sels

\* document.querySelectorAll(selectors.join(', ')): the elements any of the
\* selectors matches, in document order
RECURSIVE QuerySelectorAll(_, _)
QuerySelectorAll(els, selectors) ==
    IF els = << >> THEN << >>
    ELSE IF MatchesAny(Head(els), selectors)
         THEN <<Head(els)>> \o QuerySelectorAll(Tail(els), selectors)
         ELSE QuerySelectorAll(Tail(els), selectors)

\* the loop over cardSelectors of the page analysis script: the elements of
\* the first selector that matches any
RECURSIVE FirstCascade(_, _)
FirstCascade(els, selectors) ==
    IF selectors = << >> THEN << >>
    ELSE LET elements == QuerySelectorAll(els, <<Head(selectors)>>)
         IN  IF Len(elements) > 0 THEN elements
             ELSE FirstCascade(els, Tail(selectors))

\* the cards by content of the elements
CardsOf(els) == [i \in 1..Len(els) |-> els[i].card]

\* the documents a page shows: a date strip or none, a time slot or none, no
\* flight card, one, or two of which only the last candidate matches the
\* second, a flight-like container or none
DomItems ==
    {<< >>,
     <<[selected |-> TRUE, dayEl |-> D22, monthEl |-> Aug, weekdayEl |-> Fri,
        priceEl |-> P45Ft, dayMonthEl |-> D22 \o <<" ">> \o Aug,
        dayEl3 |-> Fri]>>}

DomSlots ==
    {<< >>,
     <<[hours |-> <<T1000, T1200>>, cities |-> << >>, priceEl |-> P89Ft,
        flightEl |-> Null]>>}

DomCardEls ==
    {<< >>,
     <<CardEl({"[data-e2e=flight-card]", ".flight-card"}, MkCard(T1000, P45Ft))>>,
     <<CardEl({"[data-e2e=flight-card]", ".flight-card"}, MkCard(T1000, P45Ft)),
       CardEl({".card-flight"}, MkCard(T1000, P89Ft))>>}

DomContainers ==
    {<< >>, <<AirportContainer>>}

NoPageInfo ==
    [routeEl |-> Null, directEl |-> Null, dateEl |-> Null, fromEl |-> Null,
     toEl |-> Null]

Documents ==
    {[items |-> i, slots |-> sl, cardEls |-> c, containers |-> k,
      page |-> NoPageInfo] :
        i \in DomItems, sl \in DomSlots, c \in DomCardEls, k \in DomContainers}

EmptyDocument ==
    [items |-> << >>, slots |-> << >>, cardEls |-> << >>, containers |-> << >>,
     page |-> NoPageInfo]

\* some .date-item__price element is in the document
HasPriceElement(d) == \E i \in 1..Len(d.items) : d.items[i].priceEl # Null

\* the price texts of the cards the cheapest flight is taken from
CheapPrices ==
    {P45Ft, P89Ft, Null, <<".">>, <<"4", ",", "5">>, <<"0">>}

CheapCards == {MkCard(T1000, price) : price \in CheapPrices}

Alphabet == {"4", "5", ",", ".", " ", "F"}

\* what a selector of getTextMultiSelector finds: no element, or the text of
\* the first element it matches
MatchedTexts == {Null, Empty, <<" ">>, <<" ", "4", "5">>, P89Ft, NA}

Texts == SeqsUpTo(Alphabet, MaxText)

\* ---------------------------------------------- checkRyanairPrice, index.ts
\* await page.waitForSelector('.date-item__price', { timeout: 30000 }): the
\* element appears, or the wait times out and the error goes to the catch
WaitForPrices ==
    /\ pc = "waitPrices"
    /\ variant \in {"index", "index3"}
    /\ \/ /\ pc' = "datePrices"
          /\ UNCHANGED raised
       \/ /\ pc' = "catch"
          /\ raised' = "TimeoutError"
    /\ UNCHANGED <<variant, dateItems, datePrices, timeOptions, flights,
                   cardFlights, moreFlights, result, thrown, cheapestIdx,
                   reduced, mainError>>
    /\ UNCHANGED <<browser, heuristic, monthClicks, calendar>>
    /\ UNCHANGED <<domVars, cascadeVars, moneyVars>>

ExtractDatePrices ==
    /\ pc = "datePrices"
    /\ variant = "index"
    /\ \E items \in SeqsUpTo(DateItems, MaxDates) :
          /\ dateItems' = items
          /\ datePrices' = DatePricesOf(items)
    /\ pc' = "timeOptions"
    /\ UNCHANGED <<variant, timeOptions, flights, cardFlights, moreFlights,
                   result, thrown, cheapestIdx, reduced, mainError>>
    /\ UNCHANGED <<browser, raised, heuristic, monthClicks, calendar>>
    /\ UNCHANGED <<domVars, cascadeVars, moneyVars>>

ExtractTimeOptions ==
    /\ pc = "timeOptions"
    /\ variant = "index"
    /\ \E timeSlots \in SeqsUpTo(TimeSlots, MaxSlots) :
          timeOptions' = TimeOptionsOf(timeSlots)
    /\ pc' = "flights"
    /\ UNCHANGED <<variant, dateItems, datePrices, flights, cardFlights,
                   moreFlights, result, thrown, cheapestIdx, reduced,
                   mainError>>
    /\ UNCHANGED <<browser, raised, heuristic, monthClicks, calendar>>
    /\ UNCHANGED <<domVars, cascadeVars, moneyVars>>

ExtractFlights ==
    /\ pc = "flights"
    /\ variant = "index"
    /\ \E flightCards \in SeqsUpTo(Cards, MaxCards) :
          /\ flights' = FlightsOf(flightCards, Destination, Origin)
          /\ cardFlights' = FlightsOf(flightCards, Destination, Origin)
    /\ pc' = "heuristic"
    /\ UNCHANGED <<variant, dateItems, datePrices, timeOptions, moreFlights,
                   result, thrown, cheapestIdx, reduced, mainError>>
    /\ UNCHANGED <<browser, raised, heuristic, monthClicks, calendar>>
    /\ UNCHANGED <<domVars, cascadeVars, moneyVars>>

\* if (flights.length === 0) { ... flights.push(...moreFlights) }
HeuristicFallback ==
    /\ pc = "heuristic"
    /\ variant = "index"
    /\ IF Len(flights) = 0
       THEN \E allFlightContainers \in SeqsUpTo(Containers, MaxContainers) :
               LET more == MoreFlightsOf(allFlightContainers)
               IN  /\ moreFlights' = more
                   /\ flights' = IF Len(more) > 0 THEN flights \o more
                                  ELSE flights
                   /\ heuristic' = [ran |-> TRUE,
                                    containers |-> allFlightContainers]
       ELSE UNCHANGED <<flights, moreFlights, heuristic>>
    /\ pc' = "selectedDate"
    /\ UNCHANGED <<variant, dateItems, datePrices, timeOptions, cardFlights,
                   result, thrown, cheapestIdx, reduced, mainError>>
    /\ UNCHANGED <<browser, raised, monthClicks, calendar>>
    /\ UNCHANGED <<domVars, cascadeVars, moneyVars>>

\* if (flights.length === 0 && datePrices.length > 0) { ... }
SelectedDateFallback ==
    /\ pc = "selectedDate"
    /\ variant = "index"
    /\ IF Len(flights) = 0 /\ Len(datePrices) > 0
          /\ FindSelected(datePrices) # NoRecord
       THEN \E page \in Pages :
               flights' = Append(flights,
                                 GenericFlight(FindSelected(datePrices),
                                               AdditionalInfoOf(page),
                                               Origin, Destination))
       ELSE UNCHANGED flights
    /\ pc' = "timeSlots"
    /\ UNCHANGED <<variant, dateItems, datePrices, timeOptions, cardFlights,
                   moreFlights, result, thrown, cheapestIdx, reduced,
                   mainError>>
    /\ UNCHANGED <<browser, raised, heuristic, monthClicks, calendar>>
    /\ UNCHANGED <<domVars, cascadeVars, moneyVars>>

\* if (flights.length === 1 && flights[0].departureTime === 'Check website'
\*     && timeOptions.length > 0) { flights = []; timeOptions.forEach(...) }
TimeSlotReplacement ==
    /\ pc = "timeSlots"
    /\ variant = "index"
    /\ IF Len(flights) = 1 /\ flights[1].departureTime = CheckWebsite
          /\ Len(timeOptions) > 0
       THEN flights' = ReplaceWithTimeOptions(flights, timeOptions,
                                              Origin, Destination)
       ELSE UNCHANGED flights
    /\ pc' = "return"
    /\ UNCHANGED <<variant, dateItems, datePrices, timeOptions, cardFlights,
                   moreFlights, result, thrown, cheapestIdx, reduced,
                   mainError>>
    /\ UNCHANGED <<browser, raised, heuristic, monthClicks, calendar>>
    /\ UNCHANGED <<domVars, cascadeVars, moneyVars>>

\* return { flights, datePrices }: the value is the caller's once the
\* finally block has run
Return ==
    /\ pc = "return"
    /\ variant = "index"
    /\ result' = [flights |-> flights, datePrices |-> datePrices]
    /\ pc' = "finally"
    /\ UNCHANGED <<variant, dateItems, datePrices, timeOptions, flights,
                   cardFlights, moreFlights, thrown, cheapestIdx, reduced,
                   mainError>>
    /\ UNCHANGED <<browser, raised, heuristic, monthClicks, calendar>>
    /\ UNCHANGED <<domVars, cascadeVars, moneyVars>>

\* --------------------------------------------- checkRyanairPrice, index3.ts
ExtractDatePrices3 ==
    /\ pc = "datePrices"
    /\ variant = "index3"
    /\ \E items \in SeqsUpTo(DateItems, MaxDates) :
          /\ dateItems' = items
          /\ datePrices' = DatePrices3Of(items)
    /\ pc' = "flights"
    /\ UNCHANGED <<variant, timeOptions, flights, cardFlights, moreFlights,
                   result, thrown, cheapestIdx, reduced, mainError>>
    /\ UNCHANGED <<browser, raised, heuristic, monthClicks, calendar>>
    /\ UNCHANGED <<domVars, cascadeVars, moneyVars>>

ExtractFlights3 ==
    /\ pc = "flights"
    /\ variant = "index3"
    /\ \E flightCards \in SeqsUpTo(Cards, MaxCards) :
          /\ flights' = Flights3Of(flightCards)
          /\ cardFlights' = Flights3Of(flightCards)
    /\ pc' = "selectedDate"
    /\ UNCHANGED <<variant, dateItems, datePrices, timeOptions, moreFlights,
                   result, thrown, cheapestIdx, reduced, mainError>>
    /\ UNCHANGED <<browser, raised, heuristic, monthClicks, calendar>>
    /\ UNCHANGED <<domVars, cascadeVars, moneyVars>>

SelectedDateFallback3 ==
    /\ pc = "selectedDate"
    /\ variant = "index3"
    /\ IF Len(flights) = 0 /\ Len(datePrices) > 0
          /\ FindSelected(datePrices) # NoRecord
       THEN flights' = Append(flights, GenericFlight3(FindSelected(datePrices)))
       ELSE UNCHANGED flights
    /\ pc' = "return"
    /\ UNCHANGED <<variant, dateItems, datePrices, timeOptions, cardFlights,
                   moreFlights, result, thrown, cheapestIdx, reduced,
                   mainError>>
    /\ UNCHANGED <<browser, raised, heuristic, monthClicks, calendar>>
    /\ UNCHANGED <<domVars, cascadeVars, moneyVars>>

Return3 ==
    /\ pc = "return"
    /\ variant = "index3"
    /\ result' = [flights |-> flights, datePrices |-> datePrices]
    /\ pc' = "finally"
    /\ UNCHANGED <<variant, dateItems, datePrices, timeOptions, flights,
                   cardFlights, moreFlights, thrown, cheapestIdx, reduced,
                   mainError>>
    /\ UNCHANGED <<browser, raised, heuristic, monthClicks, calendar>>
    /\ UNCHANGED <<domVars, cascadeVars, moneyVars>>

\* ------------------------------------- the run from the launch of the browser
\* const browser = await puppeteer.launch({...}), before the try block: when
\* the launch rejects there is no browser and the error is the caller's
Launch ==
    /\ pc = "launch"
    /\ \/ /\ browser' = Launched
          /\ pc' = "newPage"
          /\ UNCHANGED thrown
       \/ /\ thrown' = "LaunchError"
          /\ pc' = "failed"
          /\ UNCHANGED browser
    /\ UNCHANGED <<variant, dateItems, datePrices, timeOptions, flights,
                   cardFlights, moreFlights, result, cheapestIdx, reduced,
                   mainError>>
    /\ UNCHANGED <<raised, heuristic, monthClicks, calendar>>
    /\ UNCHANGED <<domVars, cascadeVars, moneyVars>>

\* const page = await browser.newPage()
NewPage ==
    /\ pc = "newPage"
    /\ pc' = "userAgent"
    /\ UNCHANGED <<variant, dateItems, datePrices, timeOptions, flights,
                   cardFlights, moreFlights, result, thrown, cheapestIdx,
                   reduced, mainError>>
    /\ UNCHANGED <<browser, raised, heuristic, monthClicks, calendar>>
    /\ UNCHANGED <<domVars, cascadeVars, moneyVars>>

\* page.setDefaultNavigationTimeout(60000); await page.setUserAgent(...)
SetUserAgent ==
    /\ pc = "userAgent"
    /\ pc' = "goto"
    /\ UNCHANGED <<variant, dateItems, datePrices, timeOptions, flights,
                   cardFlights, moreFlights, result, thrown, cheapestIdx,
                   reduced, mainError>>
    /\ UNCHANGED <<browser, raised, heuristic, monthClicks, calendar>>
    /\ UNCHANGED <<domVars, cascadeVars, moneyVars>>

\* await page.goto(...)
Goto ==
    /\ pc = "goto"
    /\ pc' = "cookieWait"
    /\ UNCHANGED <<variant, dateItems, datePrices, timeOptions, flights,
                   cardFlights, moreFlights, result, thrown, cheapestIdx,
                   reduced, mainError>>
    /\ UNCHANGED <<browser, raised, heuristic, monthClicks, calendar>>
    /\ UNCHANGED <<domVars, cascadeVars, moneyVars>>

\* the inner try: await page.waitForSelector(cookieSelector, { timeout: 5000 })
CookieWait ==
    /\ pc = "cookieWait"
    /\ pc' = "cookieClick"
    /\ UNCHANGED <<variant, dateItems, datePrices, timeOptions, flights,
                   cardFlights, moreFlights, result, thrown, cheapestIdx,
                   reduced, mainError>>
    /\ UNCHANGED <<browser, raised, heuristic, monthClicks, calendar>>
    /\ UNCHANGED <<domVars, cascadeVars, moneyVars>>

\* await page.click(cookieSelector); the direct-URL script of index.ts then
\* sleeps three seconds
CookieClick ==
    /\ pc = "cookieClick"
    /\ pc' = AfterCookie(variant)
    /\ UNCHANGED <<variant, dateItems, datePrices, timeOptions, flights,
                   cardFlights, moreFlights, result, thrown, cheapestIdx,
                   reduced, mainError>>
    /\ UNCHANGED <<browser, raised, heuristic, monthClicks, calendar>>
    /\ UNCHANGED <<domVars, cascadeVars, moneyVars>>

\* the inner catch: the wait for the cookie button or the click on it fails,
\* the error is logged and dropped, the run goes on
CookieCatch ==
    /\ pc \in {"cookieWait", "cookieClick"}
    /\ pc' = AfterCookie(variant)
    /\ UNCHANGED <<variant, dateItems, datePrices, timeOptions, flights,
                   cardFlights, moreFlights, result, thrown, cheapestIdx,
                   reduced, mainError>>
    /\ UNCHANGED <<browser, raised, heuristic, monthClicks, calendar>>
    /\ UNCHANGED <<domVars, cascadeVars, moneyVars>>

\* an awaited call on the page is pending
PageCallPending ==
    \/ pc \in {"newPage", "userAgent", "goto", "waitPrices", "datePrices",
               "timeOptions", "flights", "fillForm", "monthText", "nextMonth",
               "daySelect", "search", "waitCards", "formFlights"}
    \/ pc = "heuristic" /\ Len(flights) = 0
    \/ /\ pc = "selectedDate"
       /\ variant = "index"
       /\ Len(flights) = 0
       /\ Len(datePrices) > 0
       /\ FindSelected(datePrices) # NoRecord

\* the pending call on the page rejects: control leaves the try block for the
\* catch, and the constants of the try block go out of scope
PageFails ==
    /\ PageCallPending
    /\ raised' = "ProtocolError"
    /\ pc' = "catch"
    /\ datePrices' = << >>
    /\ timeOptions' = << >>
    /\ flights' = << >>
    /\ cardFlights' = << >>
    /\ moreFlights' = << >>
    /\ heuristic' = NoScan
    /\ UNCHANGED <<variant, dateItems, result, thrown, cheapestIdx, reduced,
                   mainError>>
    /\ UNCHANGED <<browser, monthClicks, calendar>>
    /\ UNCHANGED <<domVars, cascadeVars, moneyVars>>

\* ------------------------------------ checkRyanairPrice, form-driven script
\* The date picker. shown is the month of .calendar-body__header, counted
\* from the first month the calendar offers, 0 when the page has no such
\* element (monthElement ? monthElement.textContent : ''); target is the
\* month of selectedDate on the same count.
NoCalendar == [shown |-> 0, target |-> 0]

Calendars == [shown : 0..LastMonth, target : 1..LastMonth]

\* currentMonthYear.includes(targetMonth) &&
\* currentMonthYear.includes(targetYear.toString()); the empty text of an
\* absent header includes neither
OnTarget(c) == c.shown # 0 /\ c.shown = c.target

\* The page after a click on the next month button that did not throw: the
\* calendar moves one month forward, never back; in its last month, and
\* without a header, the click leaves the header as it is.
ClickNextMonth(c) ==
    IF c.shown # 0 /\ c.shown < LastMonth
    THEN [c EXCEPT !.shown = @ + 1]
    ELSE c

\* the origin, the destination and the date picker: waits, clicks and typing
FillForm ==
    /\ pc = "fillForm"
    /\ variant = "form"
    /\ pc' = "monthText"
    /\ UNCHANGED <<variant, dateItems, datePrices, timeOptions, flights,
                   cardFlights, moreFlights, result, thrown, cheapestIdx,
                   reduced, mainError>>
    /\ UNCHANGED <<browser, raised, heuristic, monthClicks, calendar>>
    /\ UNCHANGED <<domVars, cascadeVars, moneyVars>>

\* const monthYearText = await page.evaluate(...); the loop breaks when the
\* text includes the target month and year
MonthText ==
    /\ pc = "monthText"
    /\ pc' = IF OnTarget(calendar) THEN "daySelect" ELSE "nextMonth"
    /\ UNCHANGED <<variant, dateItems, datePrices, timeOptions, flights,
                   cardFlights, moreFlights, result, thrown, cheapestIdx,
                   reduced, mainError>>
    /\ UNCHANGED <<browser, raised, heuristic, monthClicks, calendar>>
    /\ UNCHANGED <<domVars, cascadeVars, moneyVars>>

\* await page.click('[data-ref="calendar-btn-next-month"]'), then half a
\* second of sleep and the next pass of the loop; the loop has no bound on
\* its passes, the counter stops at MaxMonths and the loop goes on
NextMonth ==
    /\ pc = "nextMonth"
    /\ monthClicks' = IF monthClicks < MaxMonths THEN monthClicks + 1
                                                 ELSE monthClicks
    /\ calendar' = ClickNextMonth(calendar)
    /\ pc' = "monthText"
    /\ UNCHANGED <<variant, dateItems, datePrices, timeOptions, flights,
                   cardFlights, moreFlights, result, thrown, cheapestIdx,
                   reduced, mainError>>
    /\ UNCHANGED <<browser, raised, heuristic>>
    /\ UNCHANGED <<domVars, cascadeVars, moneyVars>>

\* const daySelector = await page.$$(...): the cell is clicked, or
\* throw new Error(`Could not find the requested date: ${date}`)
DaySelect ==
    /\ pc = "daySelect"
    /\ \E found \in BOOLEAN :
          IF found
          THEN /\ pc' = "search"
               /\ UNCHANGED raised
          ELSE /\ pc' = "catch"
               /\ raised' = "Error"
    /\ UNCHANGED <<variant, dateItems, datePrices, timeOptions, flights,
                   cardFlights, moreFlights, result, thrown, cheapestIdx,
                   reduced, mainError>>
    /\ UNCHANGED <<browser, heuristic, monthClicks, calendar>>
    /\ UNCHANGED <<domVars, cascadeVars, moneyVars>>

\* the click on the cell, the search button, await page.waitForNavigation(...)
Search ==
    /\ pc = "search"
    /\ pc' = "waitCards"
    /\ UNCHANGED <<variant, dateItems, datePrices, timeOptions, flights,
                   cardFlights, moreFlights, result, thrown, cheapestIdx,
                   reduced, mainError>>
    /\ UNCHANGED <<browser, raised, heuristic, monthClicks, calendar>>
    /\ UNCHANGED <<domVars, cascadeVars, moneyVars>>

\* await page.waitForSelector('.flight-card__wrapper', { timeout: 30000 })
WaitForCards ==
    /\ pc = "waitCards"
    /\ \/ /\ pc' = "formFlights"
          /\ UNCHANGED raised
       \/ /\ pc' = "catch"
          /\ raised' = "TimeoutError"
    /\ UNCHANGED <<variant, dateItems, datePrices, timeOptions, flights,
                   cardFlights, moreFlights, result, thrown, cheapestIdx,
                   reduced, mainError>>
    /\ UNCHANGED <<browser, heuristic, monthClicks, calendar>>
    /\ UNCHANGED <<domVars, cascadeVars, moneyVars>>

ExtractFormFlights ==
    /\ pc = "formFlights"
    /\ \E flightCards \in SeqsUpTo(Cards, MaxCards) :
          /\ flights' = FormFlightsOf(flightCards)
          /\ cardFlights' = FormFlightsOf(flightCards)
    /\ pc' = "return"
    /\ UNCHANGED <<variant, dateItems, datePrices, timeOptions, moreFlights,
                   result, thrown, cheapestIdx, reduced, mainError>>
    /\ UNCHANGED <<browser, raised, heuristic, monthClicks, calendar>>
    /\ UNCHANGED <<domVars, cascadeVars, moneyVars>>

\* return flights
ReturnForm ==
    /\ pc = "return"
    /\ variant = "form"
    /\ result' = flights
    /\ pc' = "finally"
    /\ UNCHANGED <<variant, dateItems, datePrices, timeOptions, flights,
                   cardFlights, moreFlights, thrown, cheapestIdx, reduced,
                   mainError>>
    /\ UNCHANGED <<browser, raised, heuristic, monthClicks, calendar>>
    /\ UNCHANGED <<domVars, cascadeVars, moneyVars>>

\* ---------------------------------------------------- catch and finally
\* catch (error) { console.error('An error occurred:', error); throw error; }
Catch ==
    /\ pc = "catch"
    /\ thrown' = Rethrow(raised)
    /\ pc' = "finally"
    /\ UNCHANGED <<variant, dateItems, datePrices, timeOptions, flights,
                   cardFlights, moreFlights, result, cheapestIdx, reduced,
                   mainError>>
    /\ UNCHANGED <<browser, raised, heuristic, monthClicks, calendar>>
    /\ UNCHANGED <<domVars, cascadeVars, moneyVars>>

\* finally { await browser.close(); }: then the caller has the value or the
\* error
Finally ==
    /\ pc = "finally"
    /\ browser' = BrowserClose(browser)
    /\ pc' = IF thrown = "none" THEN "returned" ELSE "failed"
    /\ UNCHANGED <<variant, dateItems, datePrices, timeOptions, flights,
                   cardFlights, moreFlights, result, thrown, cheapestIdx,
                   reduced, mainError>>
    /\ UNCHANGED <<raised, heuristic, monthClicks, calendar>>
    /\ UNCHANGED <<domVars, cascadeVars, moneyVars>>

\* -------------------------------------------------------------------- main
\* what main does with the outcome of checkRyanairPrice: the catch of main
\* takes an error of the run; reduce on an empty array throws a TypeError,
\* which the same catch takes
MainOn(v, fl) ==
    /\ pc \in {"returned", "failed"}
    /\ variant = v
    /\ pc' = "done"
    /\ IF pc = "failed"
       THEN /\ mainError' = thrown
            /\ UNCHANGED <<cheapestIdx, reduced>>
       ELSE IF HasFlights(fl)
            THEN /\ reduced' = TRUE
                 /\ IF Len(fl) = 0
                    THEN /\ mainError' = "TypeError"
                         /\ UNCHANGED cheapestIdx
                    ELSE /\ cheapestIdx' = Reduce(v, fl)
                         /\ UNCHANGED mainError
            ELSE UNCHANGED <<cheapestIdx, reduced, mainError>>
    /\ UNCHANGED <<variant, dateItems, datePrices, timeOptions, flights,
                   cardFlights, moreFlights, result, thrown>>
    /\ UNCHANGED <<browser, raised, heuristic, monthClicks, calendar>>
    /\ UNCHANGED <<domVars, cascadeVars, moneyVars>>

\* main of index.ts
Main == MainOn("index", IF pc = "returned" THEN result.flights ELSE << >>)

\* main of index3.ts
Main3 == MainOn("index3", IF pc = "returned" THEN result.flights ELSE << >>)

\* main of the form-driven script: checkRyanairPrice returns the flights
MainForm == MainOn("form", IF pc = "returned" THEN result ELSE << >>)

\* ------------------------------------------------------------------- specs
InitMoneyIdle ==
    /\ priceEl = Null
    /\ mpc = "idle"
    /\ money = NoRecord

\* getTextMultiSelector is not running
InitCascadeIdle ==
    /\ matches = << >>
    /\ tried = << >>
    /\ text = Null
    /\ cpc = "idle"

\* no document is followed
InitDomIdle ==
    /\ dom = NoRecord
    /\ domSeen = {}

\* a run of the direct-URL scripts, from the wait for the prices on
Init ==
    /\ variant \in {"index", "index3"}
    /\ pc = "waitPrices"
    /\ dateItems = << >>
    /\ datePrices = << >>
    /\ timeOptions = << >>
    /\ moreFlights = << >>
    /\ flights = << >>
    /\ cardFlights = << >>
    /\ result = NoRecord
    /\ thrown = "none"
    /\ cheapestIdx = 0
    /\ reduced = FALSE
    /\ mainError = "none"
    /\ browser = Launched
    /\ raised = "none"
    /\ heuristic = NoScan
    /\ monthClicks = 0
    /\ calendar = NoCalendar
    /\ InitDomIdle
    /\ InitCascadeIdle
    /\ InitMoneyIdle

Next ==
    \/ WaitForPrices
    \/ ExtractDatePrices
    \/ ExtractTimeOptions
    \/ ExtractFlights
    \/ HeuristicFallback
    \/ SelectedDateFallback
    \/ TimeSlotReplacement
    \/ Return
    \/ ExtractDatePrices3
    \/ ExtractFlights3
    \/ SelectedDateFallback3
    \/ Return3
    \/ Catch
    \/ Finally
    \/ Main
    \/ Main3

Spec == Init /\ [][Next]_vars

\* main on the flights checkRyanairPrice returned, the flights being those of
\* flight cards with any of the price texts CheapPrices
CardFlightsOf(v, cards) ==
    CASE v = "index"  -> FlightsOf(cards, Destination, Origin)
      [] v = "index3" -> Flights3Of(cards)
      [] v = "form"   -> FormFlightsOf(cards)

InitCheapest ==
    /\ variant \in {"index", "index3", "form"}
    /\ pc = "returned"
    /\ dateItems = << >>
    /\ datePrices = << >>
    /\ timeOptions = << >>
    /\ moreFlights = << >>
    /\ \E cards \in SeqsUpTo(CheapCards, MaxOffers) :
          /\ flights = CardFlightsOf(variant, cards)
          /\ cardFlights = flights
          /\ result = IF variant = "form" THEN flights
                      ELSE [flights |-> flights, datePrices |-> datePrices]
    /\ thrown = "none"
    /\ cheapestIdx = 0
    /\ reduced = FALSE
    /\ mainError = "none"
    /\ browser = BrowserClose(Launched)
    /\ raised = "none"
    /\ heuristic = NoScan
    /\ monthClicks = 0
    /\ calendar = NoCalendar
    /\ InitDomIdle
    /\ InitCascadeIdle
    /\ InitMoneyIdle

NextCheapest ==
    \/ Main
    \/ Main3
    \/ MainForm

SpecCheapest == InitCheapest /\ [][NextCheapest]_vars

\* a run of any of the three scripts from the launch of the browser on, the
\* calls on the page failing or not
InitLife ==
    /\ variant \in {"index", "index3", "form"}
    /\ pc = "launch"
    /\ dateItems = << >>
    /\ datePrices = << >>
    /\ timeOptions = << >>
    /\ moreFlights = << >>
    /\ flights = << >>
    /\ cardFlights = << >>
    /\ result = NoRecord
    /\ thrown = "none"
    /\ cheapestIdx = 0
    /\ reduced = FALSE
    /\ mainError = "none"
    /\ browser = NotLaunched
    /\ raised = "none"
    /\ heuristic = NoScan
    /\ monthClicks = 0
    /\ calendar \in IF variant = "form" THEN Calendars ELSE {NoCalendar}
    /\ InitDomIdle
    /\ InitCascadeIdle
    /\ InitMoneyIdle

NextLife ==
    \/ Launch
    \/ NewPage
    \/ SetUserAgent
    \/ Goto
    \/ CookieWait
    \/ CookieClick
    \/ CookieCatch
    \/ PageFails
    \/ FillForm
    \/ MonthText
    \/ NextMonth
    \/ DaySelect
    \/ Search
    \/ WaitForCards
    \/ ExtractFormFlights
    \/ ReturnForm
    \/ MainForm
    \/ Next

SpecLife == InitLife /\ [][NextLife]_vars

\* ---------------------------------------------- the form-driven script alone
\* One run of the form-driven script from main to its end, on a date picker
\* drawn from Calendars. The script is one sequential async function: while
\* a step of it can be taken, one is taken, which is the weak fairness of
\* its next-state relation; nothing obliges a call on the page to fail.
InitCalendar ==
    /\ InitLife
    /\ variant = "form"

NextCalendar ==
    \/ Launch
    \/ NewPage
    \/ SetUserAgent
    \/ Goto
    \/ CookieWait
    \/ CookieClick
    \/ CookieCatch
    \/ PageFails
    \/ FillForm
    \/ MonthText
    \/ NextMonth
    \/ DaySelect
    \/ Search
    \/ WaitForCards
    \/ ExtractFormFlights
    \/ ReturnForm
    \/ Catch
    \/ Finally
    \/ MainForm

SpecCalendar == InitCalendar /\ [][NextCalendar]_vars /\ WF_vars(NextCalendar)

\* the price parses on any text of a price element
ParseDateMoney ==
    /\ mpc = "input"
    /\ money' = DateMoney(priceEl)
    /\ mpc' = "date"
    /\ UNCHANGED priceEl
    /\ UNCHANGED <<runVars, cascadeVars>>

ParseFlightMoney ==
    /\ mpc = "input"
    /\ money' = FlightMoney(priceEl)
    /\ mpc' = "flight"
    /\ UNCHANGED priceEl
    /\ UNCHANGED <<runVars, cascadeVars>>

ParseFlightMoney3 ==
    /\ mpc = "input"
    /\ money' = FlightMoney3(priceEl)
    /\ mpc' = "flight3"
    /\ UNCHANGED priceEl
    /\ UNCHANGED <<runVars, cascadeVars>>

ParsePriceNumeric ==
    /\ mpc = "input"
    /\ money' = [price |-> TextOrNA(priceEl),
                 numeric |-> GetPriceNumeric(TextOrNA(priceEl))]
    /\ mpc' = "numeric"
    /\ UNCHANGED priceEl
    /\ UNCHANGED <<runVars, cascadeVars>>

InitMoney ==
    /\ variant = "index"
    /\ pc = "idle"
    /\ dateItems = << >>
    /\ datePrices = << >>
    /\ timeOptions = << >>
    /\ moreFlights = << >>
    /\ flights = << >>
    /\ cardFlights = << >>
    /\ result = NoRecord
    /\ thrown = "none"
    /\ cheapestIdx = 0
    /\ reduced = FALSE
    /\ mainError = "none"
    /\ browser = NotLaunched
    /\ raised = "none"
    /\ heuristic = NoScan
    /\ monthClicks = 0
    /\ calendar = NoCalendar
    /\ InitDomIdle
    /\ InitCascadeIdle
    /\ priceEl \in Texts \cup {Null}
    /\ mpc = "input"
    /\ money = NoRecord

NextMoney ==
    \/ ParseDateMoney
    \/ ParseFlightMoney
    \/ ParseFlightMoney3
    \/ ParsePriceNumeric

SpecMoney == InitMoney /\ [][NextMoney]_vars

\* -------------------------------- the run on a document that may change
\* the page's own scripts change the document while the run awaits
DomChange ==
    /\ pc \in {"waitPrices", "datePrices", "timeOptions", "flights",
               "heuristic", "selectedDate", "timeSlots", "return", "catch",
               "finally"}
    /\ Cardinality(domSeen) <= MaxDomChanges
    /\ \E d \in Documents \ {dom} :
          /\ dom' = d
          /\ domSeen' = domSeen \cup {d}
    /\ UNCHANGED <<variant, pc, dateItems, datePrices, timeOptions, flights,
                   cardFlights, moreFlights, result, thrown, cheapestIdx,
                   reduced, mainError>>
    /\ UNCHANGED <<browser, raised, heuristic, monthClicks, calendar>>
    /\ UNCHANGED <<cascadeVars, moneyVars>>

\* the wait resolves when the document has a .date-item__price element and
\* times out when it has none
DomWaitForPrices ==
    /\ WaitForPrices
    /\ pc' = "datePrices" <=> HasPriceElement(dom)

\* each page.evaluate reads the document as it is when it runs
DomExtractDatePrices ==
    /\ ExtractDatePrices
    /\ dateItems' = dom.items

DomExtractTimeOptions ==
    /\ ExtractTimeOptions
    /\ timeOptions' = TimeOptionsOf(dom.slots)

DomExtractFlights ==
    /\ ExtractFlights
    /\ cardFlights' =
          FlightsOf(CardsOf(QuerySelectorAll(dom.cardEls, CardSelectors)),
                    Destination, Origin)

DomHeuristicFallback ==
    /\ HeuristicFallback
    /\ Len(flights) = 0 => heuristic'.containers = dom.containers

DomSelectedDateFallback ==
    /\ SelectedDateFallback
    /\ flights' # flights =>
          flights' = <<GenericFlight(FindSelected(datePrices),
                                     AdditionalInfoOf(dom.page),
                                     Origin, Destination)>>

DomExtractDatePrices3 ==
    /\ ExtractDatePrices3
    /\ dateItems' = dom.items

DomExtractFlights3 ==
    /\ ExtractFlights3
    /\ cardFlights' =
          Flights3Of(CardsOf(QuerySelectorAll(dom.cardEls, CardSelectors3)))

InitDom ==
    /\ variant \in {"index", "index3"}
    /\ pc = "waitPrices"
    /\ dateItems = << >>
    /\ datePrices = << >>
    /\ timeOptions = << >>
    /\ moreFlights = << >>
    /\ flights = << >>
    /\ cardFlights = << >>
    /\ result = NoRecord
    /\ thrown = "none"
    /\ cheapestIdx = 0
    /\ reduced = FALSE
    /\ mainError = "none"
    /\ browser = Launched
    /\ raised = "none"
    /\ heuristic = NoScan
    /\ monthClicks = 0
    /\ calendar = NoCalendar
    /\ dom \in Documents
    /\ domSeen = {dom}
    /\ InitCascadeIdle
    /\ InitMoneyIdle

NextDom ==
    \/ DomChange
    \/ DomWaitForPrices
    \/ DomExtractDatePrices
    \/ DomExtractTimeOptions
    \/ DomExtractFlights
    \/ DomHeuristicFallback
    \/ DomSelectedDateFallback
    \/ TimeSlotReplacement
    \/ Return
    \/ DomExtractDatePrices3
    \/ DomExtractFlights3
    \/ SelectedDateFallback3
    \/ Return3
    \/ Catch
    \/ Finally

SpecDom == InitDom /\ [][NextDom]_vars

\* getTextMultiSelector, one pass of its for loop at a time, on any list of
\* selectors: matches[i] is the text of the first element selectors[i]
\* matches in the container
\* const text = getText(container, selector); if (text) return text;
TrySelector ==
    /\ cpc = "loop"
    /\ Len(tried) < Len(matches)
    /\ LET selector == Len(tried) + 1
           t        == GetText(matches[selector])
       IN  /\ tried' = Append(tried, selector)
           /\ IF t # Null /\ t # Empty
              THEN /\ text' = t
                   /\ cpc' = "returned"
              ELSE UNCHANGED <<text, cpc>>
    /\ UNCHANGED matches
    /\ UNCHANGED <<runVars, moneyVars>>

\* return 'N/A' after the loop
ReturnNA ==
    /\ cpc = "loop"
    /\ Len(tried) = Len(matches)
    /\ text' = NA
    /\ cpc' = "default"
    /\ UNCHANGED <<matches, tried>>
    /\ UNCHANGED <<runVars, moneyVars>>

InitCascade ==
    /\ variant = "index"
    /\ pc = "idle"
    /\ dateItems = << >>
    /\ datePrices = << >>
    /\ timeOptions = << >>
    /\ moreFlights = << >>
    /\ flights = << >>
    /\ cardFlights = << >>
    /\ result = NoRecord
    /\ thrown = "none"
    /\ cheapestIdx = 0
    /\ reduced = FALSE
    /\ mainError = "none"
    /\ browser = NotLaunched
    /\ raised = "none"
    /\ heuristic = NoScan
    /\ monthClicks = 0
    /\ calendar = NoCalendar
    /\ InitDomIdle
    /\ matches \in SeqsUpTo(MatchedTexts, MaxSelectors)
    /\ tried = << >>
    /\ text = Null
    /\ cpc = "loop"
    /\ InitMoneyIdle

NextCascade ==
    \/ TrySelector
    \/ ReturnNA

SpecCascade == InitCascade /\ [][NextCascade]_vars

\* ================================================================== claims
\* the run has returned to main (and main may have finished)
Returned == pc \in {"returned", "done"} /\ thrown = "none"

\* the placeholders of an unresolved time or duration
Placeholders == {CheckWebsite, NA}

SelectedItems == {i \in 1..Len(dateItems) : dateItems[i].selected}

\* C1: whenever the flight card extraction yields at least one offer, the
\* offers checkRyanairPrice returns are exactly those offers, in the same
\* order: no fallback tier adds, removes or replaces an offer.
C1_PrimaryOffersReturned ==
    (Returned /\ Len(cardFlights) > 0) => result.flights = cardFlights

\* C2: when the flight cards and the heuristic scan yield no offer, no time
\* slot exists and exactly one date item is selected, with price text P, the
\* run returns exactly one offer, whose price is P as displayed and whose
\* departure time, arrival time and duration are placeholders.
C2_SelectedDateOffer ==
    (/\ Returned
     /\ cardFlights = << >>
     /\ moreFlights = << >>
     /\ timeOptions = << >>
     /\ Cardinality(SelectedItems) = 1
     /\ \A i \in SelectedItems : dateItems[i].priceEl # Null)
    => /\ Len(result.flights) = 1
       /\ \A i \in SelectedItems :
             result.flights[1].price = Trim(dateItems[i].priceEl)
       /\ result.flights[1].departureTime \in Placeholders
       /\ result.flights[1].arrivalTime \in Placeholders
       /\ result.flights[1].duration \in Placeholders

\* the offers are the time options, one each and in their order, none of them
\* the generic entry of the selected date
OnePerTimeSlot ==
    /\ Len(result.flights) = Len(timeOptions)
    /\ \A i \in 1..Len(timeOptions) :
          /\ result.flights[i].departureTime = timeOptions[i].departureTime
          /\ result.flights[i].arrivalTime = timeOptions[i].arrivalTime
          /\ result.flights[i].price = timeOptions[i].price
          /\ result.flights[i].duration = SeeWebsite

C7_NoCheapestOfNone ==
    (pc = "done" /\ thrown = "none" /\ Len(result.flights) = 0)
    => (cheapestIdx = 0 /\ ~ reduced /\ mainError = "none")

C7_Witness ==
    /\ pc = "done"
    /\ thrown = "none"
    /\ Len(result.flights) = 0
    /\ Len(timeOptions) > 0
    /\ cheapestIdx = 0

\* the flights main works on
MainFlights == IF variant = "form" THEN result ELSE result.flights

\* the number main compares for a price, by the script
PriceNumeric(price) ==
    IF variant = "form" THEN FormPriceNumeric(price) ELSE GetPriceNumeric(price)

NumericAt(i) == PriceNumeric(MainFlights[i].price)

\* the offers no offer is cheaper than
Cheapest == {i \in 1..Len(MainFlights) :
                \A j \in 1..Len(MainFlights) : ~ JsLess(NumericAt(j), NumericAt(i))}

AllParsable == \A i \in 1..Len(MainFlights) : NumericAt(i).kind = "num"

NoNaN == \A i \in 1..Len(MainFlights) : NumericAt(i).kind # "NaN"

MainDone == pc = "done" /\ thrown = "none"

\* C4: for every non-empty offer sequence whose prices all have a parsable
\* number, the offer the reduce of main (index.ts, index3.ts) chooses has a
\* numeric price less than or equal to that of every offer of the sequence;
\* over the prices "89 Ft", "45 Ft", "N/A" it is the offer priced "45 Ft".
C4_CheapestIsMinimum ==
    (MainDone /\ variant \in {"index", "index3"} /\ Len(MainFlights) > 0)
    => /\ AllParsable =>
             /\ cheapestIdx \in 1..Len(MainFlights)
             /\ \A j \in 1..Len(MainFlights) :
                   \/ JsLess(NumericAt(cheapestIdx), NumericAt(j))
                   \/ JsEq(NumericAt(cheapestIdx), NumericAt(j))
       /\ [i \in 1..Len(MainFlights) |-> MainFlights[i].price] = <<P89Ft, P45Ft, NA>>
             => cheapestIdx = 2

C4_Witness ==
    /\ MainDone
    /\ variant = "index"
    /\ Len(MainFlights) = 3
    /\ AllParsable
    /\ cheapestIdx = 2
    /\ JsLess(NumericAt(2), NumericAt(1))
    /\ JsLess(NumericAt(2), NumericAt(3))

\* C5 as stated: when two or more offers share the minimum numeric price, the
\* offer returned is the first of them in the offer sequence.
C5_TieKeepsFirst ==
    (MainDone /\ Len(MainFlights) > 0 /\ AllParsable /\ Cardinality(Cheapest) >= 2)
    => (cheapestIdx \in Cheapest /\ \A i \in Cheapest : cheapestIdx <= i)

\* C5 as amended: when two or more offers share the minimum numeric price (the
\* number the script's own price parse gives, +Infinity included) and no price
\* parses to NaN, the offer returned is the last of them in the offer sequence.
C5_TieKeepsLast ==
    (MainDone /\ Len(MainFlights) > 0 /\ NoNaN /\ Cardinality(Cheapest) >= 2)
    => (cheapestIdx \in Cheapest /\ \A i \in Cheapest : cheapestIdx >= i)

C5_Witness ==
    /\ MainDone
    /\ Len(MainFlights) = 3
    /\ AllParsable
    /\ Cheapest = {1, 2}
    /\ MainFlights[1].price # MainFlights[2].price
    /\ cheapestIdx = 2

\* C6: a price that is "N/A" or has no parsable number counts as +Infinity, so
\* that no comparison meets a NaN, and the offer of such a price is never the
\* one returned when some offer of the sequence has a parsable number.
C6_UnparsableNeverWins ==
    (MainDone /\ Len(MainFlights) > 0)
    => /\ NoNaN
       /\ (\E i \in 1..Len(MainFlights) : NumericAt(i).kind = "num")
             => NumericAt(cheapestIdx).kind = "num"

\* the text the price patterns are applied to
PriceText == TextOrNA(priceEl)

\* t[i..j] is a run of digits, commas and periods
IsNumRun(t, i, j) == i <= j /\ \A k \in i..j : IsNum(t[k])

HasNumChar(t) == \E k \in 1..Len(t) : IsNum(t[k])

\* C8 as stated: the amount of a date price is the longest contiguous run of
\* digit, comma and period characters of the price text, and "N/A" exactly
\* when the text holds no such character.
C8_AmountIsLongestRun ==
    mpc = "date" =>
        /\ money.price = NA <=> ~ HasNumChar(PriceText)
        /\ HasNumChar(PriceText) =>
              /\ \E i, j \in 1..Len(PriceText) :
                    IsNumRun(PriceText, i, j) /\ money.price = SubSeq(PriceText, i, j)
              /\ \A i, j \in 1..Len(PriceText) :
                    IsNumRun(PriceText, i, j) => j - i + 1 <= Len(money.price)

\* C8 as amended: the amount of a date price is the first (leftmost) maximal
\* contiguous run of digit, comma and period characters of the price text, and
\* "N/A" exactly when the text holds no such character.
C8_AmountIsFirstRun ==
    mpc = "date" =>
        /\ money.price = NA <=> ~ HasNumChar(PriceText)
        /\ HasNumChar(PriceText) =>
              \E i, j \in 1..Len(PriceText) :
                 /\ IsNumRun(PriceText, i, j)
                 /\ money.price = SubSeq(PriceText, i, j)
                 /\ \A k \in 1..(i - 1) : ~ IsNum(PriceText[k])
                 /\ j = Len(PriceText) \/ ~ IsNum(PriceText[j + 1])

C8_Witness ==
    /\ mpc = "date"
    /\ priceEl = <<"4", " ", "5", "5">>
    /\ money.price = <<"4">>

\* every character of the element's text is a digit, whitespace, a comma or a
\* period
OnlyNumOrSpace ==
    priceEl # Null /\ \A k \in 1..Len(priceEl) : InClass("[\\d\\s,.]", priceEl[k])

\* C9 as stated: for every price text that holds no character other than
\* digits, whitespace, commas and periods, the currency is the empty string,
\* for date items as well as for flight cards.
C9_NoSymbolEmptyCurrency ==
    (mpc \in {"date", "flight", "flight3"} /\ OnlyNumOrSpace
     /\ HasNumChar(priceEl))
    => money.currency = Empty

\* C9 as amended: for every price text that holds a digit, comma or period and
\* no character other than digits, whitespace, commas and periods, the currency
\* is the empty string for flight cards and "N/A" for date items; when the
\* price element is missing or its text is empty or blank, the currency is
\* "N/A" for both.
C9_NoSymbolCurrency ==
    /\ (mpc \in {"flight", "flight3"} /\ OnlyNumOrSpace /\ HasNumChar(priceEl))
          => money.currency = Empty
    /\ (mpc = "date" /\ OnlyNumOrSpace /\ HasNumChar(priceEl))
          => money.currency = NA
    /\ (mpc \in {"date", "flight", "flight3"}
        /\ (priceEl = Null \/ Trim(priceEl) = Empty))
          => money.currency = NA

C9_Witness ==
    /\ mpc = "flight"
    /\ priceEl = <<"4", ",", "5">>
    /\ money.currency = Empty

AllIn(t, cls) == \A k \in 1..Len(t) : InClass(cls, t[k])

AllSpaces(t) == \A k \in 1..Len(t) : t[k] \in Spaces

\* the splits of t into a first run, whitespace and a last run
Splits(t) == {<<x, y>> \in (1..Len(t)) \X (1..Len(t)) : x < y}

FirstPart(t, sp) == SubSeq(t, 1, sp[1])

Gap(t, sp) == SubSeq(t, sp[1] + 1, sp[2] - 1)

LastPart(t, sp) == SubSeq(t, sp[2], Len(t))

\* C10: for a text made of a numeric run (digits, commas, periods) and a symbol
\* run (no digit, whitespace, comma or period), in either order, with optional
\* whitespace between them, the date price parse returns the numeric run as
\* the amount and the symbol run as the currency.
C10_RoundTrip ==
    (mpc = "date" /\ priceEl # Null) =>
        \A sp \in Splits(priceEl) :
           AllSpaces(Gap(priceEl, sp)) =>
              /\ (AllIn(FirstPart(priceEl, sp), "[\\d,.]")
                  /\ AllIn(LastPart(priceEl, sp), "[^\\d\\s,.]"))
                    => /\ money.price = FirstPart(priceEl, sp)
                       /\ money.currency = LastPart(priceEl, sp)
              /\ (AllIn(FirstPart(priceEl, sp), "[^\\d\\s,.]")
                  /\ AllIn(LastPart(priceEl, sp), "[\\d,.]"))
                    => /\ money.price = LastPart(priceEl, sp)
                       /\ money.currency = FirstPart(priceEl, sp)

C10_Witness ==
    /\ mpc = "date"
    /\ priceEl = <<"F", " ", "4", ",">>
    /\ money.price = <<"4", ",">>
    /\ money.currency = <<"F">>

\* the selectors whose first element has a non-empty trimmed text
NonEmptyAt ==
    {i \in 1..Len(matches) : matches[i] # Null /\ Trim(matches[i]) # Empty}

FirstNonEmpty == CHOOSE k \in NonEmptyAt : \A m \in NonEmptyAt : k <= m

\* the positions 1..n in their order
UpTo(n) == [i \in 1..n |-> i]

\* C11: getTextMultiSelector evaluates the selectors in their listed order;
\* it returns the trimmed text of the first selector whose element has a
\* non-empty trimmed text, and has evaluated no selector after that one; it
\* returns through its default, "N/A", exactly when no selector has such an
\* element, having evaluated all of them.
C11_FirstNonEmptyWins ==
    /\ tried = UpTo(Len(tried))
    /\ cpc \in {"returned", "default"} =>
          /\ cpc = "default" <=> NonEmptyAt = {}
          /\ cpc = "default" => (text = NA /\ tried = UpTo(Len(matches)))
          /\ cpc = "returned" => /\ text = Trim(matches[FirstNonEmpty])
                                 /\ tried = UpTo(FirstNonEmpty)
          /\ text = GetTextMultiSelector(matches)

C11_Witness ==
    /\ cpc = "returned"
    /\ Len(matches) = 3
    /\ matches[1] = <<" ">>
    /\ matches[2] = <<" ", "4", "5">>
    /\ matches[3] = P89Ft
    /\ tried = <<1, 2>>
    /\ text = <<"4", "5">>

\* the caller has the value or the error of checkRyanairPrice
Delivered == pc \in {"returned", "failed"}

\* C12: a run on a document that holds no date item, no flight card, no time
\* slot and no flight-like container, and never held any, returns the result
\* of no offers and no date prices, and throws nothing.
C12_EmptyDocumentEmptyResult ==
    (Delivered /\ domSeen = {EmptyDocument})
    => /\ pc = "returned"
       /\ thrown = "none"
       /\ result = [flights |-> << >>, datePrices |-> << >>]

\* control has left the try block by an error and never comes back to it
AfterTheTry == pc \in {"catch", "finally", "failed", "done"}

SnapshotCards(v, d) ==
    CardFlightsOf(v, CardsOf(QuerySelectorAll(d.cardEls, CardSelectorsOf(v))))

\* the flights after the fallbacks of index.ts, all read from one document
SnapshotFlights(d) ==
    LET dps   == DatePricesOf(d.items)
        opts  == TimeOptionsOf(d.slots)
        cards == SnapshotCards("index", d)
        more  == MoreFlightsOf(d.containers)
        f1    == IF Len(cards) = 0 THEN more ELSE cards
        f2    == IF Len(f1) = 0 /\ FindSelected(dps) # NoRecord
                 THEN <<GenericFlight(FindSelected(dps),
                                      AdditionalInfoOf(d.page),
                                      Origin, Destination)>>
                 ELSE f1
    IN  IF Len(f2) = 1 /\ f2[1].departureTime = CheckWebsite /\ Len(opts) > 0
        THEN ReplaceWithTimeOptions(f2, opts, Origin, Destination)
        ELSE f2

\* the flights after the fallback of index3.ts, all read from one document
SnapshotFlights3(d) ==
    LET dps   == DatePrices3Of(d.items)
        cards == SnapshotCards("index3", d)
    IN  IF Len(cards) = 0 /\ FindSelected(dps) # NoRecord
        THEN <<GenericFlight3(FindSelected(dps))>>
        ELSE cards

\* the result of a run that reads everything from the one document d
SnapshotResult(v, d) ==
    IF v = "index"
    THEN [flights |-> SnapshotFlights(d), datePrices |-> DatePricesOf(d.items)]
    ELSE [flights |-> SnapshotFlights3(d), datePrices |-> DatePrices3Of(d.items)]

\* C14: the result a run returns is the result of reading the date prices,
\* the time options, the flight cards, the flight-like containers and the
\* page summary from one and the same document, one the page has shown
\* during the run, even when the document changes between the evaluate calls.
C14_SingleSnapshot ==
    pc = "returned" => \E d \in domSeen : result = SnapshotResult(variant, d)

\* the same of a run during which the document never changes
C14_UnchangedDocument ==
    (pc = "returned" /\ Cardinality(domSeen) = 1)
    => \A d \in domSeen : result = SnapshotResult(variant, d)

\* the date prices marked as selected
SelectedPoints == {i \in 1..Len(datePrices) : datePrices[i].isSelected}

\* C15: the date price at position i is marked selected exactly when the
\* date item at position i carries the selected class, whatever the texts of
\* the item; so when exactly one item carries the class, exactly one date
\* price is marked, the one at that item's position.
C15_SelectedIffClass ==
    raised = "none"
    => /\ Len(datePrices) = Len(dateItems)
       /\ \A i \in 1..Len(dateItems) :
             datePrices[i].isSelected <=> dateItems[i].selected
       /\ Cardinality(SelectedItems) = 1
             => /\ Cardinality(SelectedPoints) = 1
                /\ SelectedPoints = SelectedItems

C15_Witness ==
    /\ variant = "index"
    /\ Len(dateItems) = 2
    /\ SelectedItems = {2}
    /\ dateItems[1].priceEl # Null
    /\ dateItems[2].priceEl = Null
    /\ SelectedPoints = {2}

\* the date price of one date item, by the script
PointOf(item) ==
    IF variant = "index3" THEN DatePrice3Of(item) ELSE DatePriceOf(item)

\* C16: there is one date price per date item, in the order of the items in
\* the document, and the date prices the run returns are those, whichever
\* fallback made the offers: no later step changes them.
C16_OnePointPerItem ==
    raised = "none"
    => /\ Len(datePrices) = Len(dateItems)
       /\ \A i \in 1..Len(dateItems) : datePrices[i] = PointOf(dateItems[i])
       /\ Returned =>
             /\ Len(result.datePrices) = Len(dateItems)
             /\ \A i \in 1..Len(dateItems) :
                   result.datePrices[i] = PointOf(dateItems[i])

C16_Witness ==
    /\ pc = "returned"
    /\ variant = "index"
    /\ Len(dateItems) = 2
    /\ dateItems[1] # dateItems[2]
    /\ Len(result.datePrices) = 2
    /\ result.datePrices[1] # result.datePrices[2]
    /\ Len(result.flights) = 2
    /\ result.flights[1].duration = SeeWebsite

\* the flights of the elements the first matching candidate matches
FirstCascadeFlights(v, d) ==
    CardFlightsOf(v, CardsOf(FirstCascade(d.cardEls, CardSelectorsOf(v))))

\* C17: the flights the flight card evaluate returns are those of exactly the
\* elements that the first candidate of the selector list with any match
\* matches; an element only a later candidate matches gives no flight when
\* an earlier candidate has matched.
C17_FirstCascadeCards ==
    [][(pc = "flights" /\ pc' \in {"heuristic", "selectedDate"})
       => cardFlights' = FirstCascadeFlights(variant, dom)]_vars

\* the container has an element a time selector matches and an element a
\* price selector matches
BothFeatures(container) ==
    /\ Len(container.times) > 0
    /\ \E i \in 1..Len(container.priceEls) : container.priceEls[i] # Null

\* the containers the heuristic scan saw that have both
WithBoth ==
    {i \in 1..Len(heuristic.containers) :
        BothFeatures(heuristic.containers[i])}

\* the k-th of them in document order
KthWithBoth(k) ==
    CHOOSE i \in WithBoth : Cardinality({j \in WithBoth : j < i}) = k - 1

\* C18: the heuristic scan runs only when the flight card evaluate returned
\* no flight, and its flights are, in document order, those of exactly the
\* containers that hold both an element a time selector matches and an
\* element a price selector matches; a container with one of the two, or
\* with neither, gives no flight.
C18_HeuristicBothFeatures ==
    raised = "none"
    => /\ heuristic.ran => cardFlights = << >>
       /\ ~ heuristic.ran => moreFlights = << >>
       /\ heuristic.ran =>
             /\ Len(moreFlights) = Cardinality(WithBoth)
             /\ \A k \in 1..Len(moreFlights) :
                   LET container == heuristic.containers[KthWithBoth(k)]
                   IN  /\ moreFlights[k].price
                            = GetTextMultiSelector(container.priceEls)
                       /\ moreFlights[k].departureTime
                            = NthTextOrNA(container.times, 1)

C18_Witness ==
    /\ pc = "returned"
    /\ heuristic.ran
    /\ cardFlights = << >>
    /\ Len(heuristic.containers) = 1
    /\ WithBoth = {1}
    /\ Len(moreFlights) = 1
    /\ result.flights = moreFlights

\* the scan has run on a container with a time element and no price element
C18_WitnessOneFeature ==
    /\ heuristic.ran
    /\ Len(heuristic.containers) = 1
    /\ Len(heuristic.containers[1].times) > 0
    /\ WithBoth = {}
    /\ moreFlights = << >>

\* the offer is the generic entry the selected-date fallback makes of the
\* page summary
IsPageLevelOffer(i) ==
    /\ cardFlights = << >>
    /\ moreFlights = << >>
    /\ Len(result.flights) = 1
    /\ result.flights[i].departureTime = CheckWebsite
    /\ result.flights[i].duration = CheckWebsite

\* C19: the fromAirport and toAirport of every offer index.ts returns are the
\* origin and destination of the query, but for the generic entry of the
\* selected-date fallback, which may carry the airport codes of the page
\* summary; no other offer carries a text read from the page there.
C19_AirportsFromQuery ==
    (Returned /\ variant = "index")
    => \A i \in 1..Len(result.flights) :
          \/ IsPageLevelOffer(i)
          \/ /\ result.flights[i].fromAirport = Origin
             /\ result.flights[i].toAirport = Destination

\* the same of the offers that are not those of the heuristic scan
C19_AirportsFromQueryButHeuristic ==
    (Returned /\ variant = "index" /\ moreFlights = << >>)
    => \A i \in 1..Len(result.flights) :
          \/ IsPageLevelOffer(i)
          \/ /\ result.flights[i].fromAirport = Origin
             /\ result.flights[i].toAirport = Destination

\* C20: a run that has launched a browser calls browser.close() once and no
\* more: every awaited call on the page is made on the open browser, hence
\* before the close, and when the caller has the result or the error, be it
\* of a failed navigation, of a wait that timed out or of the date cell not
\* found, the browser has been closed exactly once. A run whose launch
\* failed closes nothing.
C20_BrowserClosedOnce ==
    /\ browser.closes <= 1
    /\ ~ browser.launched => browser.closes = 0
    /\ PageCallPending => (browser.open /\ browser.closes = 0)
    /\ pc \in {"catch", "finally"} => (browser.open /\ browser.closes = 0)
    /\ (browser.launched /\ pc \in {"returned", "failed", "done"})
          => (browser.closes = 1 /\ ~ browser.open)

\* the date cell was not found
C20_Witness ==
    /\ variant = "form"
    /\ pc = "failed"
    /\ raised = "Error"
    /\ thrown = "Error"
    /\ monthClicks > 0
    /\ browser.launched
    /\ browser.closes = 1

\* the run of index.ts has returned offers
C20_WitnessReturned ==
    /\ variant = "index"
    /\ pc = "returned"
    /\ Len(result.flights) > 0
    /\ browser.closes = 1

\* ------------------------------------------------------------------- C21
InMonthLoop == pc \in {"monthText", "nextMonth"}

\* the loop was left by its break (the target month and year are shown) or
\* by an error thrown in it
MonthLoopLeft == pc \in {"daySelect", "catch"}

\* C21: in the form-driven script, for every requested date and every month
\* the calendar shows at first, the loop that clicks the next month button
\* is left at last, by its break with the target month shown or by an
\* error; it does not run forever, also not when the target month lies
\* before the month shown or the calendar has no header.
C21_MonthLoopTerminates == InMonthLoop ~> MonthLoopLeft

\* C21: the break is taken only with the target month shown
C21_BreakOnTarget ==
    [][(pc = "monthText" /\ pc' = "daySelect") => OnTarget(calendar)]_vars

\* C21: a run whose target month is not behind the month shown, on a
\* calendar with a header, leaves the loop (the runs the claim is right on)
C21_ForwardTerminates ==
    (InMonthLoop /\ calendar.shown # 0 /\ calendar.shown <= calendar.target)
        ~> MonthLoopLeft

\* the loop has clicked as often as the counter counts and the target lies
\* behind the month shown
C21_WitnessBehind ==
    /\ pc = "nextMonth"
    /\ monthClicks = MaxMonths
    /\ calendar.shown = LastMonth
    /\ calendar.target < calendar.shown

\* the loop clicks on a page without a calendar header
C21_WitnessNoHeader ==
    /\ pc = "nextMonth"
    /\ monthClicks = MaxMonths
    /\ calendar.shown = 0

\* ------------------------------------------------------------------- C22
\* the step of index.ts over the time-slot replacement (lines 340-357)
TimeSlotStep == pc = "timeSlots" /\ pc' = "return"

\* the replacement has fired: the step has changed the offers
TimeSlotFired == TimeSlotStep /\ flights' # flights

\* the tier-1 offers of the run: those of the flight cards, real or heuristic
NoTierOne == cardFlights = << >> /\ moreFlights = << >>

\* C22: the replacement fires only when the offer list is exactly one offer
\* whose departure time is the placeholder
ReplacementGuarded ==
    TimeSlotFired => Len(flights) = 1 /\ flights[1].departureTime = CheckWebsite

\* C22: with no flight card found and no date-strip item selected the
\* offers are empty after the step, whatever the time slots
EmptyWithoutSelected ==
    (TimeSlotStep /\ NoTierOne /\ SelectedItems = {}) => flights' = << >>

\* C22: offers obtained from real or heuristic cards are not replaced
TierOneNotReplaced == (TimeSlotStep /\ ~NoTierOne) => flights' = flights

\* C22: the time-slot replacement acts only on the tier-2 synthetic offer.
\* It fires only when the offer list is exactly one offer whose departure
\* time is the placeholder; so with no flight card found and no date-strip
\* item selected the offers are empty even if time slots exist, and offers
\* obtained from real or heuristic cards are never replaced by time-slot
\* offers.
C22_ReplacesOnlySynthetic ==
    [][ReplacementGuarded /\ EmptyWithoutSelected /\ TierOneNotReplaced]_vars

\* C22: the first two parts, which the guard at index.ts:340 gives
C22_GuardAndEmpty == [][ReplacementGuarded /\ EmptyWithoutSelected]_vars

\* C22: the third part alone
C22_TierOneNotReplaced == [][TierOneNotReplaced]_vars

\* no card, no selected item, time slots present: the offers returned are
\* empty
C22_WitnessEmpty ==
    /\ Returned
    /\ variant = "index"
    /\ NoTierOne
    /\ SelectedItems = {}
    /\ Len(timeOptions) > 0
    /\ result.flights = << >>

\* a card offer was replaced by time-slot offers
C22_WitnessCardReplaced ==
    /\ Returned
    /\ variant = "index"
    /\ Len(cardFlights) = 1
    /\ cardFlights[1].departureTime = CheckWebsite
    /\ Len(timeOptions) > 0
    /\ result.flights # cardFlights

\* ------------------------------------------------------------------- C23
\* the first selected date item in the order of the date strip
FirstSelectedItem == CHOOSE k \in SelectedItems : \A m \in SelectedItems : k <= m

\* the offers are one synthetic offer, its price that of the date price of
\* date item k and its times and duration placeholders
OneSyntheticOf(fl, k) ==
    /\ Len(fl) = 1
    /\ fl[1].price = PointOf(dateItems[k]).price
    /\ fl[1].departureTime \in Placeholders
    /\ fl[1].arrivalTime \in Placeholders
    /\ fl[1].duration \in Placeholders

\* the selected-date fallback of the run has been passed without an error
AfterSelectedDate ==
    /\ raised = "none"
    /\ \/ variant = "index" /\ pc = "timeSlots"
       \/ variant = "index3" /\ pc = "return"

\* C23: when more than one date-strip item is marked selected and no flight
\* cards are found (real or heuristic), exactly one synthetic offer is
\* produced and its price is that of the first selected date price in the
\* order of the date strip; the later selected ones do not affect the
\* offers, also not those returned: they are that one offer, or in index.ts
\* with time slots on the page the offers of the time slots.
C23_FirstSelectedWins ==
    (NoTierOne /\ Cardinality(SelectedItems) > 1)
    => /\ AfterSelectedDate => OneSyntheticOf(flights, FirstSelectedItem)
       /\ (Returned /\ variant \in {"index", "index3"}) =>
             IF variant = "index" /\ timeOptions # << >>
             THEN result.flights =
                     ReplaceWithTimeOptions(<< >>, timeOptions,
                                            Origin, Destination)
             ELSE OneSyntheticOf(result.flights, FirstSelectedItem)

\* two selected items of different prices, no card: the offer returned has
\* the price of the first
C23_Witness ==
    /\ Returned
    /\ NoTierOne
    /\ timeOptions = << >>
    /\ Len(dateItems) = 2
    /\ SelectedItems = {1, 2}
    /\ PointOf(dateItems[1]).price # PointOf(dateItems[2]).price
    /\ Len(result.flights) = 1
    /\ result.flights[1].price = PointOf(dateItems[1]).price

\* ------------------------------------------------------------------- C24
\* The currency symbol the first selected date price was parsed with: its
\* currency field in index.ts (Null when nothing matched and the field is
\* the default 'N/A'); index3.ts has no such field, the symbol is the
\* first run of symbol characters of its price text.
ParsedCurrency ==
    IF variant = "index"
    THEN CurrencyMatch(TextOrNA(dateItems[FirstSelectedItem].priceEl))
    ELSE CurrencyMatch(PointOf(dateItems[FirstSelectedItem]).price)

\* the selected-date fallback has made the synthetic offer
SyntheticMade ==
    /\ AfterSelectedDate
    /\ NoTierOne
    /\ SelectedItems # {}

\* C24: the currency is carried into the tier-2 synthetic offer: when the
\* selected date price was parsed with a non-empty currency symbol C, the
\* offer synthesized from it has the currency C.
C24_CurrencyCarried ==
    (SyntheticMade /\ ParsedCurrency \notin {Null, Empty})
    => /\ Len(flights) = 1
       /\ flights[1].currency = ParsedCurrency

\* C24 in index3.ts, whose date price keeps the whole price text
C24_CurrencyCarried3 ==
    variant = "index3" => C24_CurrencyCarried

\* C24: what index.ts does carry: the price of the date price, stripped of
\* digits, white space and separators
C24_CurrencyOfPrice ==
    SyntheticMade
    => /\ Len(flights) = 1
       /\ flights[1].currency =
             RemoveRuns(PointOf(dateItems[FirstSelectedItem]).price,
                        "[\\d\\s,.]")

\* index.ts: the selected date price has the currency Ft and the synthetic
\* offer has the empty currency
C24_WitnessLost ==
    /\ SyntheticMade
    /\ variant = "index"
    /\ datePrices[FirstSelectedItem].currency = Ft
    /\ flights[1].currency = Empty

\* index3.ts: the synthetic offer has the currency of the price text
C24_WitnessCarried3 ==
    /\ SyntheticMade
    /\ variant = "index3"
    /\ ParsedCurrency = Ft
    /\ flights[1].currency = Ft

====
